---- MODULE Spec2Model ----
(***************************************************************************)
(* Request signing and verification of the API test harness                *)
(* (src/encrypt/sign_util.py with its helpers in src/encrypt/encrypt_util  *)
(* and src/utils/common_util), and a request through the client with its   *)
(* hooks (src/core/api_client.py, src/core/hook.py), the database client   *)
(* (src/db/db_client.py) and the runner (src/run.py).                      *)
(*                                                                         *)
(* Text is a sequence of one-character strings, so that str.strip,         *)
(* str.lower, the ordering of dict keys and the "&"/"=" framing of the     *)
(* canonical string are computed character by character.  A Python dict   *)
(* is a sequence of <<key, value>> pairs in insertion order, keys unique.  *)
(* A Python value is a record [t, i, s]: None, an int or a str.            *)
(***************************************************************************)
EXTENDS Integers, Sequences, FiniteSets, TLC

VARIABLES
    cfg,      \* encrypt_config: sign_key, md5_salt, sha256_salt
    clock,    \* what int(time.time()) returns now
    steps,    \* how many steps were taken so far
    params,   \* the parameter map owned by the caller / received by the verifier
    params_type, \* the Python type of that object: "dict", or "list" by mistake
    issued,   \* what the signer handed out last: map as left, signature, key, type
    last,     \* the last call: its arguments, locals and result
    token,    \* global_vars["token"], empty while none is stored
    call,     \* the ApiClient.request call in progress or just ended
    passed,   \* the tokens set_global_token was called with, oldest first
    threads,  \* the generate_sign calls of concurrent callers, by caller
    db,       \* the DbClient: its connection, its transaction, its last call
    run       \* run.py: where main is, the steps it took, its exit status

vars ==
    <<cfg, clock, steps, params, params_type, issued, last, token, call,
      passed, threads, db, run>>

-----------------------------------------------------------------------------
(* Bounds of the exploration *)

\* the length of the runs explored
MaxSteps == 3

-----------------------------------------------------------------------------
(* Characters and text *)

\* The characters the model uses, in ascending code point order.
Alphabet ==
    << "\t", " ", "&", "-",
       "0", "1", "2", "3", "4", "5", "6", "7", "8", "9",
       "=",
       "A", "B", "C", "D", "E", "F", "G", "H", "I", "J", "K", "L", "M",
       "N", "O", "P", "Q", "R", "S", "T", "U", "V", "W", "X", "Y", "Z",
       "_",
       "a", "b", "c", "d", "e", "f", "g", "h", "i", "j", "k", "l", "m",
       "n", "o", "p", "q", "r", "s", "t", "u", "v", "w", "x", "y", "z" >>

Range(s) == {s[i] : i \in 1..Len(s)}

\* the rank of each character in that order
OrdTable == [c \in Range(Alphabet) |-> CHOOSE i \in 1..Len(Alphabet) : Alphabet[i] = c]

Ord(c) == OrdTable[c]

UpperLetters == SubSeq(Alphabet, 16, 41)
LowerLetters == SubSeq(Alphabet, 43, 68)
Digits == SubSeq(Alphabet, 5, 14)
HexDigits == Digits \o SubSeq(LowerLetters, 1, 6)

\* str.lower / str.upper, one character
LowerTable ==
    [c \in Range(Alphabet) |->
        IF c \in Range(UpperLetters)
        THEN LowerLetters[CHOOSE i \in 1..26 : UpperLetters[i] = c]
        ELSE c]

UpperTable ==
    [c \in Range(Alphabet) |->
        IF c \in Range(LowerLetters)
        THEN UpperLetters[CHOOSE i \in 1..26 : LowerLetters[i] = c]
        ELSE c]

Lower(s) == [i \in 1..Len(s) |-> LowerTable[s[i]]]
Upper(s) == [i \in 1..Len(s) |-> UpperTable[s[i]]]

\* the characters str.strip() removes
Whitespace == {"\t", " "}

RECURSIVE LStrip(_)
LStrip(s) ==
    IF s # <<>> /\ Head(s) \in Whitespace THEN LStrip(Tail(s)) ELSE s

RECURSIVE RStrip(_)
RStrip(s) ==
    IF s # <<>> /\ s[Len(s)] \in Whitespace
    THEN RStrip(SubSeq(s, 1, Len(s) - 1))
    ELSE s

Strip(s) == RStrip(LStrip(s))

\* Python's < on str: lexicographic by code point, a proper prefix is smaller
StrLess(a, b) ==
    \E i \in 1..(Len(b)) :
        /\ i <= Len(a) + 1
        /\ \A j \in 1..(i - 1) : a[j] = b[j]
        /\ \/ i = Len(a) + 1
           \/ Ord(a[i]) < Ord(b[i])

\* str(n) for an int
RECURSIVE NatToStr(_)
NatToStr(n) ==
    IF n < 10 THEN <<Digits[n + 1]>>
    ELSE NatToStr(n \div 10) \o <<Digits[(n % 10) + 1]>>

IntToStr(n) == IF n < 0 THEN <<"-">> \o NatToStr(0 - n) ELSE NatToStr(n)

-----------------------------------------------------------------------------
(* Python values and dicts *)

NoneV == [t |-> "none", i |-> 0, s |-> <<>>]
IntV(n) == [t |-> "int", i |-> n, s |-> <<>>]
StrV(s) == [t |-> "str", i |-> 0, s |-> s]

\* str(value), also what an f-string writes for the value
Str(v) ==
    CASE v.t = "none" -> <<"N", "o", "n", "e">>
      [] v.t = "int" -> IntToStr(v.i)
      [] OTHER -> v.s

Keys(d) == {d[i][1] : i \in 1..Len(d)}

\* key in d
DictHas(d, k) == k \in Keys(d)

\* d[k], for a key that is present
DictGet(d, k) == d[CHOOSE i \in 1..Len(d) : d[i][1] = k][2]

\* d[k] = v: an existing key keeps its position, a new key goes last
DictSet(d, k, v) ==
    IF DictHas(d, k)
    THEN [i \in 1..Len(d) |-> IF d[i][1] = k THEN <<k, v>> ELSE d[i]]
    ELSE Append(d, <<k, v>>)

TIMESTAMP == <<"t", "i", "m", "e", "s", "t", "a", "m", "p">>
NONCE == <<"n", "o", "n", "c", "e">>

-----------------------------------------------------------------------------
(* utils/common_util.py *)

\* sorted(items, key=lambda x: x[0]) is stable: an item goes before the first
\* item whose key is strictly greater.
RECURSIVE InsertByKey(_, _)
InsertByKey(sorted, item) ==
    IF sorted = <<>> THEN <<item>>
    ELSE IF StrLess(item[1], Head(sorted)[1])
         THEN <<item>> \o sorted
         ELSE <<Head(sorted)>> \o InsertByKey(Tail(sorted), item)

RECURSIVE SortItems(_)
SortItems(items) ==
    IF items = <<>> THEN <<>>
    ELSE InsertByKey(SortItems(SubSeq(items, 1, Len(items) - 1)), items[Len(items)])

\* sort_dict that returns the items in insertion order
SortDictUnsorted(dict_data) == dict_data

\* sort_dict(dict_data)
SortDict(dict_data) == SortItems(dict_data)

-----------------------------------------------------------------------------
(* encrypt/encrypt_util.py *)

\* Two lowercase hex digits per character.
Hex(s) ==
    [i \in 1..(2 * Len(s)) |->
        IF i % 2 = 1
        THEN HexDigits[(Ord(s[(i + 1) \div 2]) \div 16) + 1]
        ELSE HexDigits[(Ord(s[i \div 2]) % 16) + 1]]

\* hashlib.md5(data).hexdigest() and hashlib.sha256(data).hexdigest().
\* The library digest is taken as collision free: it is rendered as a
\* lowercase hex encoding of its input, one byte longer for sha256 than for
\* md5, so that the two never agree.
HexDigest(alg, data) ==
    IF alg = "md5" THEN Hex(data) ELSE <<"0", "0">> \o Hex(data)

\* the bytes md5_encrypt hashes: "if not salt" takes the configured salt for
\* an empty salt as for None
Md5Content(content, salt) ==
    content \o (IF salt = <<>> THEN cfg.md5_salt ELSE salt)

\* the bytes sha256_encrypt hashes
Sha256Content(content, salt) ==
    content \o (IF salt = <<>> THEN cfg.sha256_salt ELSE salt)

\* A lone surrogate code point, as a str holds it after decoding with
\* errors="surrogateescape": "...".encode("utf-8") raises UnicodeEncodeError.
Surrogate == "U+D800"

\* f"{content}{salt}".encode("utf-8") succeeds
Encodable(text) == \A i \in 1..Len(text) : text[i] # Surrogate

Md5Encrypt(content, salt) == HexDigest("md5", Md5Content(content, salt))

Sha256Encrypt(content, salt) == HexDigest("sha256", Sha256Content(content, salt))

-----------------------------------------------------------------------------
(* encrypt/sign_util.py *)

NonceLength == 16

\* string.ascii_letters + string.digits
NonceChars == Range(LowerLetters) \cup Range(UpperLetters) \cup Range(Digits)

\* The nonces the exploration draws from.
NonceSample ==
    { << "a", "B", "3", "x", "Q", "9", "k", "L", "m", "N", "2", "p", "R", "7", "s", "T" >>,
      << "Z", "z", "0", "0", "0", "0", "0", "0", "0", "0", "0", "0", "0", "0", "0", "1" >> }

\* generate_nonce(length): any string of that many letters and digits
GenerateNonce(length) ==
    {n \in NonceSample : Len(n) = length /\ Range(n) \subseteq NonceChars}

\* a skip test that knows None only
IsElidedNoneOnly(value) == value.t = "none"

\* the test that makes the loop skip an entry
IsElided(value) == value.t = "none" \/ Strip(Str(value)) = <<>>

\* the loop over sorted_params.items()
RECURSIVE JoinParams(_)
JoinParams(items) ==
    IF items = <<>> THEN <<>>
    ELSE (IF IsElided(Head(items)[2]) THEN <<>>
          ELSE Head(items)[1] \o <<"=">> \o Str(Head(items)[2]) \o <<"&">>)
         \o JoinParams(Tail(items))

SIGNKEY == <<"s", "i", "g", "n", "K", "e", "y", "=">>

\* a sign_str that closes the key segment with "&" as well
SignStrTrailing(stamped, sign_key) ==
    JoinParams(SortDict(stamped)) \o SIGNKEY \o sign_key \o <<"&">>

\* sign_str as built from the stamped map
SignStr(stamped, sign_key) == JoinParams(SortDict(stamped)) \o SIGNKEY \o sign_key

\* a step 2 that leaves the nonce out
StampTimestampOnly(p, timestamp, nonce) == DictSet(p, TIMESTAMP, IntV(timestamp))

\* what step 2 writes into the caller's map
Stamp(p, timestamp, nonce) ==
    DictSet(DictSet(p, TIMESTAMP, IntV(timestamp)), NONCE, StrV(nonce))

MD5 == <<"m", "d", "5">>
SHA256 == <<"s", "h", "a", "2", "5", "6">>

\* sign_key after the default from the configuration is applied
EffectiveKey(sign_key) == IF sign_key = <<>> THEN cfg.sign_key ELSE sign_key

\* a type test that lets every object through
AnyObject(obj_type) == TRUE

\* isinstance(params, dict)
IsDict(obj_type) == obj_type = "dict"

\* a key test that takes every key, the empty one too
KeyMissingNever(key) == FALSE

\* "not sign_key" after the default was applied: None and "" alike
KeyMissing(key) == key = <<>>

\* The EncryptError that leaves generate_sign: the raise statement it comes
\* from and what its message renders besides the text.  EncryptError derives
\* from ApiAutoTestError, a BaseException, so "except Exception" (line 80)
\* lets it through as raised; only an Exception would be rewritten by line 81
\* into a message that renders the parameter map.
Raised(p, cause, site, carries) ==
    [ok |-> FALSE, cause |-> cause, site |-> site, carries |-> carries,
     sign |-> <<>>, params |-> p, sign_str |-> <<>>, content |-> <<>>]

Signed(stamped, sign_str, content, sign) ==
    [ok |-> TRUE, cause |-> "", site |-> "", carries |-> "",
     sign |-> sign, params |-> stamped, sign_str |-> sign_str,
     content |-> content]

\* generate_sign(params, sign_key, sign_type), given what generate_timestamp()
\* and generate_nonce() return during the call.  params is the caller's
\* object after the call; ok = FALSE is an EncryptError leaving the call.
GenerateSign(p, sign_key, sign_type, timestamp, nonce) ==
    LET key == EffectiveKey(sign_key)
        stamped == Stamp(p, timestamp, nonce)
        sign_str == SignStr(stamped, key)
    IN  IF ~IsDict(params_type)
        THEN Raised(p, "not_dict", "generate_sign:45", "text")
        ELSE IF KeyMissing(key)
        THEN Raised(p, "no_key", "generate_sign:49", "text")
        ELSE IF Lower(sign_type) = MD5
        THEN IF Encodable(Md5Content(sign_str, <<>>))
             THEN Signed(stamped, sign_str, Md5Content(sign_str, <<>>),
                         Md5Encrypt(sign_str, <<>>))
             ELSE Raised(stamped, "digest", "md5_encrypt:47", "content")
        ELSE IF Lower(sign_type) = SHA256
        THEN IF Encodable(Sha256Content(sign_str, <<>>))
             THEN Signed(stamped, sign_str, Sha256Content(sign_str, <<>>),
                         Sha256Encrypt(sign_str, <<>>))
             ELSE Raised(stamped, "digest", "sha256_encrypt:65", "content")
        ELSE Raised(stamped, "unsupported", "generate_sign:76", "sign_type")

Abs(x) == IF x < 0 THEN 0 - x ELSE x

\* a freshness test that rejects old timestamps only
FreshOneSided(p, now, timeout) ==
    /\ DictGet(p, TIMESTAMP).t = "int"
    /\ ~(now - DictGet(p, TIMESTAMP).i > timeout)

\* the freshness test of step 2; a timestamp that is not an int makes the
\* subtraction raise, which the except clause turns into False
Fresh(p, now, timeout) ==
    /\ DictGet(p, TIMESTAMP).t = "int"
    /\ ~(Abs(now - DictGet(p, TIMESTAMP).i) > timeout)

\* a test of step 1 that looks for the timestamp only
MissingTimestampOnly(p) == ~DictHas(p, TIMESTAMP)

\* the test of step 1: "timestamp" not in params or "nonce" not in params
MissingField(p) == ~DictHas(p, TIMESTAMP) \/ ~DictHas(p, NONCE)

\* verify_sign(params, sign, sign_key, sign_type, timeout): now is the clock
\* read in step 2, timestamp and nonce what generate_sign draws in step 3.
\* ret is the boolean returned, params the caller's map after the call,
\* recomputed whether generate_sign was called.  raised: the EncryptError of
\* generate_sign is a BaseException, which "except Exception" (line 118)
\* does not catch, so it leaves verify_sign.  A list holds no element equal
\* to "timestamp", so step 1 returns False for it.
VerifySign(p, sign, sign_key, sign_type, timeout, now, timestamp, nonce) ==
    IF ~IsDict(params_type) \/ MissingField(p)
    THEN [ret |-> FALSE, raised |-> FALSE, recomputed |-> FALSE, params |-> p]
    ELSE IF ~Fresh(p, now, timeout)
    THEN [ret |-> FALSE, raised |-> FALSE, recomputed |-> FALSE, params |-> p]
    ELSE LET g == GenerateSign(p, sign_key, sign_type, timestamp, nonce)
         IN  IF ~g.ok
             THEN [ret |-> FALSE, raised |-> TRUE, recomputed |-> TRUE,
                   params |-> g.params]
             ELSE [ret |-> Lower(g.sign) = Lower(sign), raised |-> FALSE,
                   recomputed |-> TRUE, params |-> g.params]

-----------------------------------------------------------------------------
(* The inputs the exploration draws from *)

\* int(time.time()) at the start
Epoch == 17 * 100000000

\* timeout: int = 300
DefaultTimeout == 300

SECRET123 == <<"s", "e", "c", "r", "e", "t", "1", "2", "3">>
USER == <<"u", "s", "e", "r">>
AMOUNT == <<"a", "m", "o", "u", "n", "t">>
MEMO == <<"m", "e", "m", "o">>
ALICE == <<"a", "l", "i", "c", "e">>
BOB == <<"b", "o", "b">>

\* the contents of config.yaml's encrypt section
SaltedConfig ==
    [sign_key |-> <<"c", "f", "g">>, md5_salt |-> <<"s", "5">>,
     sha256_salt |-> <<"s", "2">>]

BareConfig == [sign_key |-> <<>>, md5_salt |-> <<>>, sha256_salt |-> <<>>]

\* the maps a caller starts from
ExampleMap == << <<USER, StrV(ALICE)>>, <<AMOUNT, IntV(100)>> >>

SparseMap == << <<USER, StrV(BOB)>>, <<MEMO, StrV(<<" ">>)>>, <<AMOUNT, NoneV>> >>

\* a map received with its nonce stripped
StrippedMap == << <<USER, StrV(BOB)>>, <<TIMESTAMP, IntV(Epoch)>> >>

\* a value that holds the separators, and the map it reads like
JoinedMap == << << <<"a">>, StrV(<<"1", "&", "b", "=", "2">>) >> >>

SplitMap == << << <<"a">>, StrV(<<"1">>) >>, << <<"b">>, StrV(<<"2">>) >> >>

\* the configuration, the caller's object and its type at the start; the
\* last one is the items of ExampleMap passed as a list
Starts ==
    { <<SaltedConfig, ExampleMap, "dict">>, <<BareConfig, ExampleMap, "dict">>,
      <<SaltedConfig, SparseMap, "dict">>, <<BareConfig, << >>, "dict">>,
      <<SaltedConfig, StrippedMap, "dict">>, <<BareConfig, JoinedMap, "dict">>,
      <<SaltedConfig, ExampleMap, "list">> }

SHA1 == <<"s", "h", "a", "1">>

\* the sign_key and sign_type the signer is called with
GenerateArgs ==
    { <<SECRET123, SHA256>>, << <<>>, Upper(MD5)>>, <<SECRET123, SHA1>>,
      <<SECRET123 \o <<Surrogate>>, SHA256>> }

\* how far the clock moves in one step
ClockSteps == {DefaultTimeout, DefaultTimeout + 1}

\* the values an entry of the map can be changed to
NewValues(k) ==
    IF k = TIMESTAMP
    THEN {IntV(clock + 1), IntV(clock + DefaultTimeout + 1), StrV(IntToStr(clock))}
    ELSE IF k = NONCE
    THEN {StrV(n) : n \in NonceSample} \cup {NoneV}
    ELSE {StrV(<<"1", "0", "0">>), NoneV}

NoIssue ==
    [valid |-> FALSE, params |-> <<>>, sign |-> <<>>, key |-> <<>>,
     type |-> <<>>, timestamp |-> 0]

BOGUS == <<"d", "e", "a", "d", "b", "e", "e", "f">>

\* the signatures a counterparty presents
Candidates ==
    IF issued.valid THEN {issued.sign, Upper(issued.sign), BOGUS} ELSE {BOGUS}

\* the sign, sign_key, sign_type and timeout the verifier is called with:
\* those of the signer with each candidate, then a wrong key, a wrong type
\* and a wider window
VerifyArgs ==
    IF issued.valid
    THEN {<<c, issued.key, issued.type, DefaultTimeout>> : c \in Candidates}
         \cup { <<issued.sign, <<"k">>, issued.type, DefaultTimeout>>,
                <<issued.sign, issued.key, SHA1, DefaultTimeout>>,
                <<issued.sign, issued.key, issued.type, DefaultTimeout + 1>> }
    ELSE {<<BOGUS, SECRET123, SHA256, DefaultTimeout>>}

Blank ==
    [op |-> "none", before |-> <<>>, after |-> <<>>, key |-> <<>>, type |-> <<>>,
     timeout |-> 0, now |-> 0, timestamp |-> 0, nonce |-> <<>>, cand |-> <<>>,
     ok |-> FALSE, ret |-> FALSE, sign |-> <<>>, sign_str |-> <<>>,
     content |-> <<>>, raised |-> FALSE, cause |-> "", site |-> "",
     carries |-> "", recomputed |-> FALSE, url |-> <<>>,
     has_params |-> FALSE, has_headers |-> FALSE, error |-> "",
     status |-> 0, depth |-> 0]

\* kwargs of a request: whether headers= and params= were passed, and the
\* dicts passed
Kwargs(has_headers, headers, has_params, p) ==
    [has_headers |-> has_headers, headers |-> headers,
     has_params |-> has_params, params |-> p]

\* no call of ApiClient.request was made yet
Idle ==
    [pc |-> "idle", url |-> <<>>, kwargs |-> Kwargs(FALSE, <<>>, FALSE, <<>>),
     origin |-> Kwargs(FALSE, <<>>, FALSE, <<>>), origin_url |-> <<>>,
     depth |-> 0, logins |-> 0, resends |-> 0, sends |-> 0, status |-> 0,
     error |-> "", cause |-> "", wrapped |-> 0]

\* no DbClient was made, run.py was not started
NoDb == [open |-> FALSE]
NotRun == [pc |-> "none"]

-----------------------------------------------------------------------------
(* The state machine *)

Init ==
    /\ \E st \in Starts : cfg = st[1] /\ params = st[2] /\ params_type = st[3]
    /\ clock = Epoch
    /\ steps = 0
    /\ issued = NoIssue
    /\ last = Blank
    /\ token = <<>>
    /\ call = Idle
    /\ passed = <<>>
    /\ threads = <<>>
    /\ db = NoDb
    /\ run = NotRun

\* the caller signs its map: generate_sign(params, sign_key, sign_type)
Generate(sign_key, sign_type) ==
    /\ steps < MaxSteps
    /\ steps' = steps + 1
    /\ \E nonce \in GenerateNonce(NonceLength) :
        \E g \in {GenerateSign(params, sign_key, sign_type, clock, nonce)} :
            /\ params' = g.params
            /\ issued' = IF g.ok
                         THEN [valid |-> TRUE, params |-> g.params, sign |-> g.sign,
                               key |-> sign_key, type |-> sign_type,
                               timestamp |-> clock]
                         ELSE issued
            /\ last' = [Blank EXCEPT !.op = "generate", !.before = params,
                           !.after = g.params, !.key = sign_key,
                           !.type = sign_type, !.now = clock,
                           !.timestamp = clock, !.nonce = nonce, !.ok = g.ok,
                           !.sign = g.sign, !.sign_str = g.sign_str,
                           !.content = g.content, !.raised = ~g.ok,
                           !.cause = g.cause, !.site = g.site,
                           !.carries = g.carries]
            /\ UNCHANGED <<cfg, clock, params_type, token, call, passed, threads, db, run>>

\* the verifier checks the map it holds:
\* verify_sign(params, sign, sign_key, sign_type, timeout); the call is over
\* within one second, so both reads of the clock give the same value
Verify(sign, sign_key, sign_type, timeout) ==
    /\ steps < MaxSteps
    /\ steps' = steps + 1
    /\ \E nonce \in GenerateNonce(NonceLength) :
        \E v \in {VerifySign(params, sign, sign_key, sign_type, timeout,
                             clock, clock, nonce)} :
            /\ params' = v.params
            /\ last' = [Blank EXCEPT !.op = "verify", !.before = params,
                           !.after = v.params, !.key = sign_key,
                           !.type = sign_type, !.timeout = timeout,
                           !.now = clock, !.timestamp = clock,
                           !.nonce = nonce, !.cand = sign, !.ret = v.ret,
                           !.raised = v.raised, !.recomputed = v.recomputed]
            /\ UNCHANGED <<cfg, clock, params_type, issued, token, call, passed, threads, db, run>>

\* somebody between signer and verifier changes the value of one entry
Tamper(k, value) ==
    /\ steps < MaxSteps
    /\ steps' = steps + 1
    /\ issued.valid
    /\ DictHas(params, k)
    /\ DictGet(params, k) # value
    /\ params' = DictSet(params, k, value)
    /\ last' = [Blank EXCEPT !.op = "tamper", !.before = params,
                   !.after = params']
    /\ UNCHANGED <<cfg, clock, params_type, issued, token, call, passed, threads, db, run>>

\* time passes
Tick(step) ==
    /\ steps < MaxSteps
    /\ steps' = steps + 1
    /\ clock' = clock + step
    /\ last' = [Blank EXCEPT !.op = "tick"]
    /\ UNCHANGED <<cfg, params, params_type, issued, token, call, passed, threads, db, run>>

Next ==
    \/ \E a \in GenerateArgs : Generate(a[1], a[2])
    \/ \E a \in VerifyArgs : Verify(a[1], a[2], a[3], a[4])
    \/ \E k \in Keys(params) : \E value \in NewValues(k) : Tamper(k, value)
    \/ \E step \in ClockSteps : Tick(step)

Spec == Init /\ [][Next]_vars

-----------------------------------------------------------------------------
(* core/hook.py and core/api_client.py: a request through the client *)

\* "not token": None and the empty string
Falsy(v) == v.t = "none" \/ (v.t = "str" /\ v.s = <<>>)

\* a set_global_token that stores whatever it is given
SetGlobalTokenAlways(current, new_token) == new_token.s

\* set_global_token(token): what global_vars["token"] holds afterwards
SetGlobalToken(current, new_token) ==
    IF Falsy(new_token) THEN current ELSE new_token.s

\* get_global_token(): global_vars.get("token", "")
GetGlobalToken(stored) == stored

\* config.yaml, section api, as request_hook reads it
ApiConfig ==
    [need_token |-> TRUE,
     token_key |-> <<"A", "u", "t", "h", "o", "r", "i", "z", "a", "t", "i", "o", "n">>,
     token_prefix |-> <<"B", "e", "a", "r", "e", "r", " ">>]

SIGN == <<"s", "i", "g", "n">>
SIGN_KEY_123 == <<"s", "i", "g", "n", "_", "k", "e", "y", "_", "1", "2", "3">>
HTTP == <<"h", "t", "t", "p">>
BaseUrl == HTTP \o <<":", "/", "/", "h", "o", "s", "t">>
SignApi == <<"/", "s", "i", "g", "n", "/", "a", "p", "i">>
InfoApi == <<"/", "u", "s", "e", "r", "/", "i", "n", "f", "o">>
LoginApi == <<"/", "u", "s", "e", "r", "/", "l", "o", "g", "i", "n">>

\* str.startswith / str.endswith
StartsWith(text, prefix) ==
    Len(text) >= Len(prefix) /\ SubSeq(text, 1, Len(prefix)) = prefix

EndsWith(text, suffix) ==
    Len(text) >= Len(suffix)
    /\ SubSeq(text, Len(text) - Len(suffix) + 1, Len(text)) = suffix

\* full_url = self.base_url + url if not url.startswith("http") else url
FullUrl(url) == IF StartsWith(url, HTTP) THEN url ELSE BaseUrl \o url

\* request_hook left by an exception, kwargs as far as it was changed
HookRaised(kwargs, error) ==
    [ok |-> FALSE, error |-> error, kwargs |-> kwargs, sign |-> <<>>]

\* step 1 of request_hook: kwargs["headers"][token_key] = prefix + token;
\* without a headers argument the subscript raises KeyError
InjectToken(kwargs, tok) ==
    IF ApiConfig.need_token /\ tok # <<>>
    THEN IF kwargs.has_headers
         THEN [ok |-> TRUE,
               kwargs |-> [kwargs EXCEPT !.headers =
                              DictSet(@, ApiConfig.token_key,
                                      StrV(ApiConfig.token_prefix \o tok))]]
         ELSE [ok |-> FALSE, kwargs |-> kwargs]
    ELSE [ok |-> TRUE, kwargs |-> kwargs]

\* step 3 of request_hook, for a URL that ends with /sign/api.
\* kwargs.get("params", {}) is the caller's dict, or a new dict that kwargs
\* does not hold: generate_sign stamps that one, and kwargs["params"] in
\* the next line raises KeyError.
AttachSign(kwargs, timestamp, nonce) ==
    LET sign_params == IF kwargs.has_params THEN kwargs.params ELSE <<>>
        g == GenerateSign(sign_params, SIGN_KEY_123, SHA256, timestamp, nonce)
    IN  IF ~g.ok
        THEN HookRaised(IF kwargs.has_params
                        THEN [kwargs EXCEPT !.params = g.params] ELSE kwargs,
                        "EncryptError")
        ELSE IF ~kwargs.has_params
        THEN HookRaised(kwargs, "KeyError:params")
        ELSE [ok |-> TRUE, error |-> "", sign |-> g.sign,
              kwargs |-> [kwargs EXCEPT !.params =
                  DictSet(DictSet(DictSet(g.params, SIGN, StrV(g.sign)),
                                  TIMESTAMP, DictGet(g.params, TIMESTAMP)),
                          NONCE, DictGet(g.params, NONCE))]]

\* request_hook(method, full_url, kwargs) with the token stored, for a URL
\* that does not end with /encrypt/api
RequestHook(full_url, kwargs, tok, timestamp, nonce) ==
    LET t == InjectToken(kwargs, tok)
    IN  IF ~t.ok THEN HookRaised(kwargs, "KeyError:headers")
        ELSE IF EndsWith(full_url, SignApi)
        THEN AttachSign(t.kwargs, timestamp, nonce)
        ELSE [ok |-> TRUE, error |-> "", sign |-> <<>>, kwargs |-> t.kwargs]

\* the attributes of requests.PreparedRequest, which is what
\* response.request is: it has no params and no json
PreparedRequestAttrs == {"method", "url", "headers", "body", "hooks"}

\* kwargs of the login request: api_client.post(url=..., json=...)
LoginKwargs == Kwargs(FALSE, <<>>, FALSE, <<>>)

\* the token a successful login receives
FreshToken == <<"t", "1">>
StaleToken == <<"t", "0">>

\* the classes that derive from ApiAutoTestError, which derives from
\* BaseException
BaseExceptionClasses ==
    {"ApiRequestError", "ConfigLoadError", "EncryptError", "AssertFailError",
     "DatabaseError", "DataNotFoundError"}

\* an except clause that catches every class
CatchesAll(class) == TRUE

\* "except Exception" catches the class
ExceptExceptionCatches(class) == class \notin BaseExceptionClasses

\* the call ends with ApiRequestError: raised by line 94, 96 or 100 of the
\* frame numbered c.depth, it passes through the try block of each of the
\* c.depth frames below, whose line 99 wraps it once more if it catches it
Failed(c, cause) ==
    [c EXCEPT !.pc = "raised", !.error = "ApiRequestError", !.cause = cause,
              !.wrapped = IF ExceptExceptionCatches("ApiRequestError")
                          THEN c.depth ELSE 0,
              !.depth = 0]

\* lines 78-87 of response_hook, once login() has returned in the frame
\* above the request numbered depth: the request is rebuilt from
\* response.request and sent again through api_client.request
Resend(c, depth, tok, timestamp, nonce) ==
    IF {"params", "json"} \subseteq PreparedRequestAttrs
    THEN LET url == IF depth = 0 THEN c.origin_url ELSE FullUrl(LoginApi)
             kw == IF depth = 0 THEN c.origin ELSE LoginKwargs
             again == Kwargs(TRUE, kw.headers, TRUE, kw.params)
             h == RequestHook(url, again, tok, timestamp, nonce)
         IN  IF h.ok
             THEN [c EXCEPT !.url = url, !.kwargs = h.kwargs, !.depth = depth,
                            !.resends = @ + 1, !.sends = @ + 1]
             ELSE Failed([c EXCEPT !.depth = depth], h.error)
    ELSE Failed([c EXCEPT !.depth = depth], "AttributeError")

\* login(), which the hook imports from testcases.test_user.test_user_login:
\* the repository has no such function; the login it does have is the
\* login fixture, which posts the login request through api_client without
\* headers and stores the token of the answer.  This is the part up to the
\* login request being on the wire.
LoginSent(c, tok, timestamp, nonce) ==
    LET h == RequestHook(FullUrl(LoginApi), LoginKwargs, tok, timestamp, nonce)
    IN  IF h.ok
        THEN [c EXCEPT !.logins = @ + 1, !.depth = @ + 1, !.sends = @ + 1,
                       !.url = FullUrl(LoginApi), !.kwargs = h.kwargs]
        ELSE [Failed(c, h.error) EXCEPT !.logins = @ + 1]

\* the URLs and kwargs a test case calls api_client.request with
Urls == {SignApi, InfoApi}

CallerKwargs ==
    { Kwargs(hh, <<>>, hp, IF hp THEN m ELSE <<>>) :
        hh \in BOOLEAN, hp \in BOOLEAN, m \in {ExampleMap} }

ClientInit ==
    /\ cfg \in {SaltedConfig, BareConfig}
    /\ clock = Epoch
    /\ steps = 0
    /\ params = <<>>
    /\ params_type = "dict"
    /\ issued = NoIssue
    /\ last = Blank
    /\ token \in {<<>>, StaleToken}
    /\ call = Idle
    /\ passed = <<>>
    /\ threads = <<>>
    /\ db = NoDb
    /\ run = NotRun

\* ApiClient.request(method, url, **kwargs) up to the request being on the
\* wire: request_hook runs outside the try block, so what it raises reaches
\* the caller as raised
Request(url, kwargs) ==
    /\ steps < MaxSteps
    /\ steps' = steps + 1
    /\ call.pc # "sent"
    /\ \E nonce \in GenerateNonce(NonceLength) :
        \E h \in {RequestHook(FullUrl(url), kwargs, token, clock, nonce)} :
            /\ call' = IF h.ok
                       THEN [Idle EXCEPT !.pc = "sent", !.url = FullUrl(url),
                                         !.kwargs = h.kwargs, !.sends = 1,
                                         !.origin = h.kwargs,
                                         !.origin_url = FullUrl(url)]
                       ELSE [Idle EXCEPT !.pc = "raised", !.url = FullUrl(url),
                                         !.kwargs = h.kwargs, !.error = h.error,
                                         !.cause = h.error]
            /\ last' = [Blank EXCEPT !.op = "request_hook",
                           !.url = FullUrl(url),
                           !.has_params = kwargs.has_params,
                           !.has_headers = kwargs.has_headers,
                           !.before = kwargs.params, !.after = h.kwargs.params,
                           !.key = SIGN_KEY_123, !.type = SHA256,
                           !.now = clock, !.timestamp = clock,
                           !.nonce = nonce, !.ok = h.ok, !.raised = ~h.ok,
                           !.error = h.error, !.sign = h.sign]
    /\ UNCHANGED <<cfg, clock, params, params_type, issued, token, passed, threads, db, run>>

\* the server answers the request on the wire and response_hook runs: any
\* status but 401 is returned; 401 imports login and calls it, which sends
\* the login request.  The answer to a login request that is not 401 lets
\* login() store the token and return into lines 78-87 of the frame below.
Answer(status, importable) ==
    /\ steps < MaxSteps
    /\ steps' = steps + 1
    /\ call.pc = "sent"
    /\ \E nonce \in GenerateNonce(NonceLength) :
        IF status # 401
        THEN IF call.depth = 0
             THEN /\ call' = [call EXCEPT !.pc = "returned", !.status = status]
                  /\ token' = token
             ELSE /\ token' = SetGlobalToken(token, StrV(FreshToken))
                  /\ call' = Resend(call, call.depth - 1, token', clock, nonce)
        ELSE /\ token' = token
             /\ call' = IF importable
                        THEN LoginSent(call, token, clock, nonce)
                        ELSE Failed(call, "ImportError")
    /\ last' = [Blank EXCEPT !.op = "answer", !.status = status,
                   !.depth = call.depth]
    /\ UNCHANGED <<cfg, clock, params, params_type, issued, passed, threads, db, run>>

\* session.request raises requests.exceptions.Timeout or ConnectionError
TransportError(kind) ==
    /\ steps < MaxSteps
    /\ steps' = steps + 1
    /\ call.pc = "sent"
    /\ call' = Failed(call, kind)
    /\ last' = [Blank EXCEPT !.op = "transport_error"]
    /\ UNCHANGED <<cfg, clock, params, params_type, issued, token, passed, threads, db, run>>

ClientNext ==
    \/ \E url \in Urls : \E kwargs \in CallerKwargs : Request(url, kwargs)
    \/ \E status \in {200, 401} : \E importable \in BOOLEAN :
          Answer(status, importable)
    \/ \E kind \in {"Timeout", "ConnectionError"} : TransportError(kind)

ClientSpec == ClientInit /\ [][ClientNext]_vars

-----------------------------------------------------------------------------
(* utils/common_util.py: the global token *)

\* what set_global_token is called with
TokenInputs ==
    {NoneV, StrV(<<>>), StrV(StaleToken), StrV(FreshToken), StrV(<<"t", "2">>)}

TokenInit ==
    /\ cfg = SaltedConfig
    /\ clock = Epoch
    /\ steps = 0
    /\ params = <<>>
    /\ params_type = "dict"
    /\ issued = NoIssue
    /\ last = Blank
    /\ token = <<>>
    /\ call = Idle
    /\ passed = <<>>
    /\ threads = <<>>
    /\ db = NoDb
    /\ run = NotRun

\* set_global_token(new_token)
SetToken(new_token) ==
    /\ steps < MaxSteps
    /\ steps' = steps + 1
    /\ token' = SetGlobalToken(token, new_token)
    /\ passed' = Append(passed, new_token)
    /\ last' = [Blank EXCEPT !.op = "set_global_token", !.before = token,
                   !.after = token']
    /\ UNCHANGED <<cfg, clock, params, params_type, issued, call, threads, db, run>>

\* get_global_token(); cand is what it returns
GetToken ==
    /\ steps < MaxSteps
    /\ steps' = steps + 1
    /\ last' = [Blank EXCEPT !.op = "get_global_token",
                   !.cand = GetGlobalToken(token)]
    /\ UNCHANGED <<cfg, clock, params, params_type, issued, token, call,
                   passed, threads, db, run>>

TokenNext ==
    \/ \E new_token \in TokenInputs : SetToken(new_token)
    \/ GetToken

TokenSpec == TokenInit /\ [][TokenNext]_vars

-----------------------------------------------------------------------------
(* Properties of signing and verification *)

LastGenerated == last.op = "generate" /\ last.ok
LastVerified == last.op = "verify"

\* the verifier was given the signer's signature, key and type
PresentedAsIssued ==
    /\ LastVerified
    /\ issued.valid
    /\ last.cand = issued.sign
    /\ last.key = issued.key
    /\ last.type = issued.type

\* the signature of a received map computed from the timestamp and nonce it
\* carries: steps 3 to 5 on the map as it is
SignOfReceived(p, sign_key, sign_type) ==
    IF Lower(sign_type) = MD5
    THEN Md5Encrypt(SignStr(p, EffectiveKey(sign_key)), <<>>)
    ELSE Sha256Encrypt(SignStr(p, EffectiveKey(sign_key)), <<>>)

\* C1: a map verified as the signer left it, with the signature, key and
\* type of the signer and before the clock moves, verifies true.
C1_RoundTrip ==
    (/\ PresentedAsIssued
     /\ issued.key # <<>>
     /\ last.before = issued.params
     /\ last.now = issued.timestamp)
    => last.ret

\* C2: the verifier leaves the caller's map, its timestamp and nonce
\* included, as it found it, whatever it returns.
C2_VerifyKeepsParams == LastVerified => last.after = last.before

\* C3: the verifier returns true only for a fresh timestamp and a candidate
\* that equals, case ignored, the signature of the received map with the
\* timestamp and nonce it carries.
C3_TrueOnlyIfBoth ==
    (LastVerified /\ last.ret) =>
        /\ Fresh(last.before, last.now, last.timeout)
        /\ Lower(last.cand) = Lower(SignOfReceived(last.before, last.key, last.type))

\* cur is orig with the value of an entry of the canonical string changed
TamperedFrom(orig, cur) ==
    /\ Len(cur) = Len(orig)
    /\ \A i \in 1..Len(orig) : cur[i][1] = orig[i][1]
    /\ \E i \in 1..Len(orig) : cur[i][2] # orig[i][2] /\ ~IsElided(orig[i][2])

\* C4: once an included value was changed after signing, the original
\* signature verifies false.
C4_TamperDetected ==
    (PresentedAsIssued /\ TamperedFrom(issued.params, last.before)) => ~last.ret

\* every order the items of a map can be inserted in
RECURSIVE Orders(_)
Orders(items) ==
    IF items = <<>> THEN {<<>>}
    ELSE UNION { { SubSeq(q, 1, i) \o <<Head(items)>> \o SubSeq(q, i + 1, Len(q)) :
                   i \in 0..Len(q) } : q \in Orders(Tail(items)) }

\* C5: signing any reordering of the map with the same key, type, timestamp
\* and nonce returns the same signature.
C5_OrderIndependent ==
    LastGenerated =>
        \A q \in Orders(last.before) :
            GenerateSign(q, last.key, last.type, last.timestamp, last.nonce).sign
                = last.sign

C5_Witness ==
    /\ LastGenerated
    /\ Len(last.before) >= 2
    /\ SortItems(last.before) # last.before

\* C6: the bytes that are hashed are the canonical string and nothing else.
C6_NoSalt ==
    LastGenerated =>
        /\ last.content = last.sign_str
        /\ last.sign = HexDigest(IF Lower(last.type) = MD5 THEN "md5" ELSE "sha256",
                                 last.sign_str)

\* null, or a string form that is empty or made of whitespace only
IsBlank(v) ==
    v.t = "none" \/ \A i \in 1..Len(Str(v)) : Str(v)[i] \in Whitespace

\* "<key>=<value>&" for the entries of p numbered in S, smallest key first
RECURSIVE Ascending(_, _)
Ascending(p, S) ==
    IF S = {} THEN <<>>
    ELSE LET m == CHOOSE i \in S : \A j \in S \ {i} : StrLess(p[i][1], p[j][1])
         IN  p[m][1] \o <<"=">> \o Str(p[m][2]) \o <<"&">> \o Ascending(p, S \ {m})

Canonical(p, sign_key) ==
    Ascending(p, {i \in 1..Len(p) : ~IsBlank(p[i][2])}) \o SIGNKEY \o sign_key

\* "amount=100&nonce=aB3xQ9kLmN2pR7sT&timestamp=1700000000&user=alice&signKey=secret123"
ExampleSignStr ==
    AMOUNT \o <<"=", "1", "0", "0", "&">>
    \o NONCE \o <<"=", "a", "B", "3", "x", "Q", "9", "k", "L", "m", "N", "2",
                  "p", "R", "7", "s", "T", "&">>
    \o TIMESTAMP \o <<"=", "1", "7", "0", "0", "0", "0", "0", "0", "0", "0", "&">>
    \o USER \o <<"=">> \o ALICE \o <<"&">>
    \o SIGNKEY \o SECRET123

ExtraKeys == {<<"a">>, MEMO, <<"z">>}
BlankValues == {NoneV, StrV(<<>>), StrV(<<" ">>), StrV(<<"\t", " ">>)}

\* p without its blank entries
RECURSIVE WithoutBlanks(_)
WithoutBlanks(p) ==
    IF p = <<>> THEN <<>>
    ELSE (IF IsBlank(Head(p)[2]) THEN <<>> ELSE <<Head(p)>>) \o WithoutBlanks(Tail(p))

\* C8: a blank entry adds nothing to the canonical string, and a blank entry
\* added to the map does not change the signature.
C8_BlankElided ==
    LastGenerated =>
        /\ last.sign_str = SignStr(WithoutBlanks(last.after), EffectiveKey(last.key))
        /\ \A k \in ExtraKeys \ Keys(last.before) : \A e \in BlankValues :
              GenerateSign(DictSet(last.before, k, e), last.key, last.type,
                           last.timestamp, last.nonce).sign = last.sign

C8_Witness ==
    /\ LastGenerated
    /\ \E i \in 1..Len(last.before) :
          last.before[i][2].t = "str" /\ IsBlank(last.before[i][2])

\* the received timestamp is an int further than the window from the clock
OutsideWindow ==
    /\ LastVerified
    /\ DictHas(last.before, TIMESTAMP)
    /\ DictGet(last.before, TIMESTAMP).t = "int"
    /\ Abs(last.now - DictGet(last.before, TIMESTAMP).i) > last.timeout

\* C9: a timestamp further than the window from the clock, in the past or in
\* the future, is rejected before any signature is computed.
C9_WindowEnforced == OutsideWindow => (~last.ret /\ last.after = last.before)

C9_Witness ==
    /\ OutsideWindow
    /\ PresentedAsIssued
    /\ last.before = issued.params
    /\ last.now - DictGet(last.before, TIMESTAMP).i = last.timeout + 1

\* C10: a map verified as the signer left it, exactly the window after it
\* was signed, verifies true.
C10_BoundaryAccepts ==
    (/\ PresentedAsIssued
     /\ last.before = issued.params
     /\ last.now = issued.timestamp + last.timeout)
    => last.ret

-----------------------------------------------------------------------------
(* Case, missing fields and failures *)

\* C11: the signer's signature in upper case, presented with the map as the
\* signer left it, the signer's key and type and before the clock moves,
\* verifies true.
C11_UppercaseVerifies ==
    (/\ LastVerified
     /\ issued.valid
     /\ last.cand = Upper(issued.sign)
     /\ last.key = issued.key
     /\ last.type = issued.type
     /\ last.before = issued.params
     /\ last.now = issued.timestamp)
    => last.ret

\* C12: for a map without its timestamp or without its nonce the verifier
\* returns false, raises nothing, computes no signature and leaves the map.
C12_MissingFieldRejected ==
    (LastVerified /\ (~DictHas(last.before, TIMESTAMP) \/ ~DictHas(last.before, NONCE)))
    => (/\ ~last.ret
        /\ ~last.raised
        /\ ~last.recomputed
        /\ last.after = last.before)

C12_Witness ==
    /\ LastVerified
    /\ params_type = "dict"
    /\ DictHas(last.before, TIMESTAMP)
    /\ ~DictHas(last.before, NONCE)
    /\ Fresh(last.before, last.now, last.timeout)

\* C13: no call of the verifier raises.
C13_VerifyNeverRaises == LastVerified => ~last.raised

\* C14: called with a type that is neither md5 nor sha256, the signer
\* raises, computes no digest and leaves the caller's map as it was.
C14_UnsupportedAtomic ==
    (last.op = "generate" /\ Lower(last.type) \notin {MD5, SHA256})
    => (/\ last.raised
        /\ last.sign = <<>>
        /\ last.content = <<>>
        /\ last.after = last.before)

\* C15: called with an object that is not a dict, the signer raises the
\* error of its type test, returns no signature and leaves the object.
C15_NotAMapping ==
    (last.op = "generate" /\ params_type # "dict")
    => (/\ last.raised
        /\ last.site = "generate_sign:45"
        /\ last.sign = <<>>
        /\ last.after = last.before)

C15_Witness ==
    /\ last.op = "generate"
    /\ params_type = "list"
    /\ last.before # <<>>
    /\ EffectiveKey(last.key) # <<>>

\* C16: with no key passed and none configured the signer raises the error
\* of its key test, returns no signature and leaves the map unstamped; and
\* whatever it signs, it signs with a key that is not empty.
C16_NoEmptyKey ==
    /\ (last.op = "generate" /\ params_type = "dict"
           /\ last.key = <<>> /\ cfg.sign_key = <<>>)
       => (/\ last.raised
           /\ last.site = "generate_sign:49"
           /\ last.sign = <<>>
           /\ last.content = <<>>
           /\ last.after = last.before)
    /\ LastGenerated => EffectiveKey(last.key) # <<>>

C16_Witness ==
    /\ last.op = "generate"
    /\ params_type = "dict"
    /\ last.key = <<>>
    /\ cfg.sign_key = <<>>
    /\ last.before # <<>>

\* C17: a failure of the digest leaves the signer as the error of its own
\* except clause, whose message renders the parameter map.
C17_DigestFailureWrapped ==
    (last.op = "generate" /\ last.cause = "digest")
    => (/\ last.raised
        /\ last.site = "generate_sign:81"
        /\ last.carries = "params")

\* C18: after a call that returned a signature the map holds the clock
\* reading of the call as timestamp and the nonce drawn in the call, 16
\* letters and digits, as nonce; every other entry is as it was; and the
\* signature is the one of the map as it now is.
C18_Stamped ==
    LastGenerated =>
        /\ DictHas(last.after, TIMESTAMP)
        /\ DictHas(last.after, NONCE)
        /\ DictGet(last.after, TIMESTAMP) = IntV(last.now)
        /\ DictGet(last.after, NONCE) = StrV(last.nonce)
        /\ Len(last.nonce) = 16
        /\ Range(last.nonce) \subseteq NonceChars
        /\ Keys(last.after) = Keys(last.before) \cup {TIMESTAMP, NONCE}
        /\ \A k \in Keys(last.before) \ {TIMESTAMP, NONCE} :
              DictGet(last.after, k) = DictGet(last.before, k)
        /\ last.sign = SignOfReceived(last.after, last.key, last.type)

C18_Witness ==
    /\ LastGenerated
    /\ DictHas(last.before, NONCE)
    /\ DictHas(last.before, USER)
    /\ DictGet(last.before, NONCE) # DictGet(last.after, NONCE)

-----------------------------------------------------------------------------
(* Properties of a request through the client *)

\* p without the entry of key k
WithoutKey(p, k) == SelectSeq(p, LAMBDA item : item[1] # k)

\* request_hook ran for a URL that ends with /sign/api and step 1 had a
\* headers dict for the token, or no token to inject
SignedEndpointCalled ==
    /\ last.op = "request_hook"
    /\ EndsWith(last.url, SignApi)
    /\ (last.has_headers \/ last.error # "KeyError:headers")

\* C19: for a URL that ends with /sign/api, params passed or not,
\* request_hook returns and leaves params with sign, timestamp and nonce,
\* sign being the signature of the other entries with that timestamp and
\* nonce.
C19_SignAttached ==
    SignedEndpointCalled =>
        /\ ~last.raised
        /\ call.pc = "sent"
        /\ DictHas(call.kwargs.params, SIGN)
        /\ DictHas(call.kwargs.params, TIMESTAMP)
        /\ DictHas(call.kwargs.params, NONCE)
        /\ DictGet(call.kwargs.params, SIGN)
             = StrV(SignOfReceived(WithoutKey(call.kwargs.params, SIGN),
                                   SIGN_KEY_123, SHA256))

LoginReturned == last.op = "answer" /\ last.depth > 0 /\ last.status # 401

C24_TokenInjected ==
    last.op = "request_hook" =>
        /\ last.error # "KeyError:headers"
        /\ IF token # <<>>
           THEN /\ DictHas(call.kwargs.headers, ApiConfig.token_key)
                /\ DictGet(call.kwargs.headers, ApiConfig.token_key)
                     = StrV(ApiConfig.token_prefix \o token)
           ELSE ~DictHas(call.kwargs.headers, ApiConfig.token_key)

-----------------------------------------------------------------------------
(* Properties across calls *)

\* C22: a verify call that follows a verify call with the same map, the same
\* candidate, key, type and window, the clock not having moved, gives the
\* result the first one gave.
C22_ReplaySameResult ==
    [][(/\ last.op = "verify"
        /\ last'.op = "verify"
        /\ last'.before = last.before
        /\ last'.cand = last.cand
        /\ last'.key = last.key
        /\ last'.type = last.type
        /\ last'.timeout = last.timeout
        /\ last'.now = last.now)
       => (last'.ret = last.ret /\ last'.raised = last.raised)]_vars

\* the entries of p that reach the canonical string, by string form
Entries(p) ==
    { <<p[i][1], Str(p[i][2])>> : i \in {j \in 1..Len(p) : ~IsElided(p[j][2])} }

\* the maps the signed one is compared with
Rivals == {SplitMap, JoinedMap, ExampleMap, SparseMap}

\* C29: a map that, signed with the same key, timestamp and nonce, gives
\* the canonical string of the signed map has the entries of the signed map.
C29_Unambiguous ==
    LastGenerated =>
        \A q \in Rivals :
            SignStr(Stamp(q, last.timestamp, last.nonce), EffectiveKey(last.key))
                = last.sign_str
            => Entries(Stamp(q, last.timestamp, last.nonce)) = Entries(last.after)

-----------------------------------------------------------------------------
(* Properties of the global token *)

\* the last token of the sequence that is neither None nor empty, or ""
RECURSIVE LatestNonEmpty(_)
LatestNonEmpty(tokens) ==
    IF tokens = <<>> THEN <<>>
    ELSE LET v == tokens[Len(tokens)]
         IN  IF v.t = "str" /\ v.s # <<>> THEN v.s
             ELSE LatestNonEmpty(SubSeq(tokens, 1, Len(tokens) - 1))

\* C25: get_global_token returns the latest non-empty token passed to
\* set_global_token, or "" when there was none, and a call with an empty
\* token or None leaves the stored token as it was.
C25_LatestNonEmptyToken ==
    /\ last.op = "get_global_token" => last.cand = LatestNonEmpty(passed)
    /\ (last.op = "set_global_token" /\ Falsy(passed[Len(passed)]))
       => last.after = last.before

C25_Witness ==
    /\ last.op = "get_global_token"
    /\ Len(passed) = 2
    /\ Falsy(passed[2])
    /\ last.cand = StaleToken

-----------------------------------------------------------------------------
(* db/db_client.py: DbClient.execute_sql *)

\* the first keywords of the statements that return rows, line 114
QueryKeywords ==
    { <<"S", "E", "L", "E", "C", "T">>,
      <<"D", "E", "S", "C", "R", "I", "B", "E">>,
      <<"S", "H", "O", "W">> }

\* str.split()[0] of a text that does not start with whitespace
RECURSIVE FirstWord(_)
FirstWord(s) ==
    IF s = <<>> \/ s[1] \in Whitespace THEN <<>>
    ELSE <<s[1]>> \o FirstWord(Tail(s))

\* line 113: sql.strip().upper().split()[0]
SqlType(sql) == FirstWord(Upper(Strip(sql)))

\* line 113 raises IndexError: split() of a blank statement is empty
NoFirstWord(sql) == Strip(sql) = <<>>

\* the statements execute_sql is called with
Statements ==
    { <<"S", "E", "L", "E", "C", "T", " ", "1">>,
      <<" ", "s", "e", "l", "e", "c", "t", " ", "1">>,
      <<"s", "h", "o", "w", "\t", "t">>,
      <<"D", "e", "s", "c", "r", "i", "b", "e", " ", "t">>,
      <<"I", "N", "S", "E", "R", "T", " ", "t">>,
      <<"u", "p", "d", "a", "t", "e", " ", "t">>,
      <<"D", "E", "L", "E", "T", "E", " ", "t">>,
      <<"S", "E", "L", "E", "C", "T", "_", "t">>,
      <<" ", " ">> }

\* the driver call that fails during one execute_sql, if any
Faults == {"none", "execute", "fetchall", "commit"}

\* no call yet
NoCall ==
    [op |-> "none", sql |-> <<>>, sql_type |-> <<>>, executed |-> FALSE,
     commit_called |-> FALSE, committed |-> FALSE, rolled_back |-> FALSE,
     returned |-> "none", raised |-> ""]

\* db_client as line 163 leaves it: connected, nothing pending
Connected ==
    [open |-> TRUE, conn |-> "connected", pending |-> 0, stored |-> 0,
     call |-> NoCall]

\* lines 127-130, the handler of "except Exception": conn.rollback(), which
\* itself raises once the connection is lost or closed, and only then the
\* raise of DatabaseError
Handler(d, c) ==
    IF d.conn = "connected"
    THEN [d EXCEPT !.pending = 0,
                   !.call = [c EXCEPT !.rolled_back = TRUE,
                                      !.raised = "DatabaseError"]]
    ELSE [d EXCEPT !.call = [c EXCEPT !.raised = "InterfaceError"]]

\* lines 107-130 of execute_sql on the client d, where the driver call
\* named by fault fails
ExecuteSqlOn(d, sql, fault) ==
    LET c0 == [NoCall EXCEPT !.op = "execute_sql", !.sql = sql]
    IN  IF d.conn # "connected" \/ fault = "execute"
        THEN Handler(d, c0)
        ELSE IF NoFirstWord(sql)
        THEN Handler(d, [c0 EXCEPT !.executed = TRUE])
        ELSE LET sql_type == SqlType(sql)
                 c1 == [c0 EXCEPT !.executed = TRUE, !.sql_type = sql_type]
             IN  IF sql_type \in QueryKeywords
                 THEN IF fault = "fetchall"
                      THEN Handler(d, c1)
                      ELSE [d EXCEPT !.call = [c1 EXCEPT !.returned = "rows"]]
                 ELSE LET w == [d EXCEPT !.pending = @ + 1]
                          c2 == [c1 EXCEPT !.commit_called = TRUE]
                      IN  IF fault = "commit"
                          THEN Handler(w, c2)
                          ELSE [w EXCEPT !.stored = @ + w.pending,
                                         !.pending = 0,
                                         !.call = [c2 EXCEPT
                                                      !.committed = TRUE,
                                                      !.returned = "rowcount"]]

DbInit ==
    /\ cfg = SaltedConfig
    /\ clock = Epoch
    /\ steps = 0
    /\ params = <<>>
    /\ params_type = "dict"
    /\ issued = NoIssue
    /\ last = Blank
    /\ token = <<>>
    /\ call = Idle
    /\ passed = <<>>
    /\ threads = <<>>
    /\ db = Connected
    /\ run = NotRun

\* db_client.execute_sql(sql)
ExecuteSql(sql, fault) ==
    /\ steps < MaxSteps
    /\ steps' = steps + 1
    /\ db' = ExecuteSqlOn(db, sql, fault)
    /\ UNCHANGED <<cfg, clock, params, params_type, issued, last, token, call,
                   passed, threads, run>>

\* the server or the network drops the connection between two calls
ConnectionLost ==
    /\ steps < MaxSteps
    /\ db.conn = "connected"
    /\ steps' = steps + 1
    /\ db' = [db EXCEPT !.conn = "lost", !.pending = 0,
                        !.call = [NoCall EXCEPT !.op = "lost"]]
    /\ UNCHANGED <<cfg, clock, params, params_type, issued, last, token, call,
                   passed, threads, run>>

\* db_client.close(), lines 152-159
Close ==
    /\ steps < MaxSteps
    /\ db.conn # "closed"
    /\ steps' = steps + 1
    /\ db' = [db EXCEPT !.conn = "closed", !.pending = 0,
                        !.call = [NoCall EXCEPT !.op = "close"]]
    /\ UNCHANGED <<cfg, clock, params, params_type, issued, last, token, call,
                   passed, threads, run>>

DbNext ==
    \/ \E sql \in Statements, fault \in Faults : ExecuteSql(sql, fault)
    \/ ConnectionLost
    \/ Close

DbSpec == DbInit /\ [][DbNext]_vars

\* C27: execute_sql commits exactly when a statement whose first keyword is
\* not SELECT, DESCRIBE or SHOW executed without error, and then returns the
\* affected-row count; a query returns the fetched rows and commits nothing;
\* whenever execution fails the transaction is rolled back, nothing is
\* committed by the call and DatabaseError is raised.
C27_TransactionDiscipline ==
    db.open /\ db.call.op = "execute_sql" =>
        LET c == db.call
            failed == c.returned = "none"
        IN  /\ c.commit_called
               <=> (c.executed /\ c.sql_type # <<>>
                    /\ c.sql_type \notin QueryKeywords)
            /\ c.committed => c.returned = "rowcount"
            /\ (~failed /\ c.sql_type \in QueryKeywords)
               => (c.returned = "rows" /\ ~c.commit_called)
            /\ failed => (c.rolled_back /\ ~c.committed
                          /\ c.raised = "DatabaseError")

\* the same discipline while the connection is up
C27_WhileConnected ==
    db.open /\ db.conn = "connected" => C27_TransactionDiscipline

-----------------------------------------------------------------------------
(* run.py: main and the steps it calls *)

\* the steps of main, lines 180-188, in the order it calls them
FlowOrder ==
    <<"parse_args", "prepare_env", "build_run_command", "run_tests",
      "generate_allure_report">>

\* the command lines: --module, --case, --retry, --html
CommandLines ==
    [module : {"", "user", "order"},
     case : {"", "test_user_login.py"},
     retry : {0, 1},
     html : BOOLEAN]

\* how subprocess.run(command, check=True) ends in run_tests: exit status
\* 0, CalledProcessError for another exit status of pytest, or another
\* exception, such as FileNotFoundError when pytest cannot be started
TestOutcomes == {"passed", "failed", "launch_error"}

\* how prepare_env ends: sys.exit(1) below Python 3.8, or an OSError of
\* create_dir_if_not_exists
EnvOutcomes == {"ok", "old_python", "oserror"}

\* how subprocess.run(report_command, check=True) ends
ReportOutcomes == {"generated", "no_allure", "failed", "oserror"}

\* main is entered, line 177
Started ==
    [pc |-> "start", trace |-> <<>>, args |-> [module |-> "", case |-> "",
     retry |-> 0, html |-> TRUE], command |-> <<>>, tests |-> "none",
     report |-> "none", exit |-> -1]

\* the step is entered
Enter(r, step) == [r EXCEPT !.trace = Append(@, step)]

\* sys.exit(status), or line 193-195 of main with status 1: SystemExit is
\* not an Exception and passes "except Exception"
Exit(r, status) == [r EXCEPT !.pc = "exit", !.exit = status]

\* run_tests returns to main only when pytest passed
ReturnsWhenPassed(outcome) == outcome = "passed"

\* run_tests returns to main, lines 116-135: no exception, or the
\* CalledProcessError caught at line 129; lines 136-140 end in sys.exit(1)
Returns(outcome) == outcome \in {"passed", "failed"}

RunInit ==
    /\ cfg = SaltedConfig
    /\ clock = Epoch
    /\ steps = 0
    /\ params = <<>>
    /\ params_type = "dict"
    /\ issued = NoIssue
    /\ last = Blank
    /\ token = <<>>
    /\ call = Idle
    /\ passed = <<>>
    /\ threads = <<>>
    /\ db = NoDb
    /\ run = Started

\* parse_args(), lines 20-38; argparse ends with status 2 on a command line
\* it rejects
ParseArgs(line, valid) ==
    /\ run.pc = "start"
    /\ run' = LET r == Enter(run, "parse_args")
              IN  IF valid THEN [r EXCEPT !.pc = "parsed", !.args = line]
                  ELSE Exit(r, 2)
    /\ UNCHANGED <<cfg, clock, steps, params, params_type, issued, last, token,
                   call, passed, threads, db>>

\* prepare_env(), lines 41-62
PrepareEnv(outcome) ==
    /\ run.pc = "parsed"
    /\ run' = LET r == Enter(run, "prepare_env")
              IN  IF outcome = "ok" THEN [r EXCEPT !.pc = "prepared"]
                  ELSE Exit(r, 1)
    /\ UNCHANGED <<cfg, clock, steps, params, params_type, issued, last, token,
                   call, passed, threads, db>>

\* build_run_command(args), lines 65-106; module_exists and case_exists are
\* what os.path.exists answers for the paths of --module and --case
BuildRunCommand(module_exists, case_exists) ==
    /\ run.pc = "prepared"
    /\ run' = LET r == Enter(run, "build_run_command")
                  a == run.args
                  base == <<"pytest", "testcases">>
                  with_module == IF a.module # "" THEN Append(base, a.module)
                                 ELSE base
                  with_case == IF a.case # "" THEN Append(with_module, a.case)
                               ELSE with_module
              IN  IF a.module # "" /\ ~module_exists THEN Exit(r, 1)
                  ELSE IF a.case # "" /\ ~case_exists THEN Exit(r, 1)
                  ELSE [r EXCEPT !.pc = "built", !.command = with_case]
    /\ UNCHANGED <<cfg, clock, steps, params, params_type, issued, last, token,
                   call, passed, threads, db>>

\* run_tests(command), lines 109-142
RunTests(outcome) ==
    /\ run.pc = "built"
    /\ run' = LET r == [Enter(run, "run_tests") EXCEPT !.tests = outcome]
              IN  IF Returns(outcome) THEN [r EXCEPT !.pc = "tested"]
                  ELSE Exit(r, 1)
    /\ UNCHANGED <<cfg, clock, steps, params, params_type, issued, last, token,
                   call, passed, threads, db>>

\* generate_allure_report(args), lines 145-174: skipped without --html;
\* FileNotFoundError and CalledProcessError are logged, another exception
\* reaches line 193 of main
GenerateAllureReport(outcome) ==
    /\ run.pc = "tested"
    /\ run' = LET r == Enter(run, "generate_allure_report")
              IN  IF ~run.args.html
                  THEN [r EXCEPT !.pc = "reported", !.report = "skipped"]
                  ELSE IF outcome = "oserror"
                  THEN Exit([r EXCEPT !.report = outcome], 1)
                  ELSE [r EXCEPT !.pc = "reported", !.report = outcome]
    /\ UNCHANGED <<cfg, clock, steps, params, params_type, issued, last, token,
                   call, passed, threads, db>>

\* lines 190-191 of main: sys.exit(0)
Finish ==
    /\ run.pc = "reported"
    /\ run' = Exit(run, 0)
    /\ UNCHANGED <<cfg, clock, steps, params, params_type, issued, last, token,
                   call, passed, threads, db>>

RunNext ==
    \/ \E line \in CommandLines, valid \in BOOLEAN : ParseArgs(line, valid)
    \/ \E outcome \in EnvOutcomes : PrepareEnv(outcome)
    \/ \E module_exists \in BOOLEAN, case_exists \in BOOLEAN :
           BuildRunCommand(module_exists, case_exists)
    \/ \E outcome \in TestOutcomes : RunTests(outcome)
    \/ \E outcome \in ReportOutcomes : GenerateAllureReport(outcome)
    \/ Finish

RunSpec == RunInit /\ [][RunNext]_vars

\* the steps taken so far are the first steps of the flow, in its order
InFlowOrder(trace) ==
    /\ Len(trace) <= Len(FlowOrder)
    /\ trace = SubSeq(FlowOrder, 1, Len(trace))

\* C28: main performs parse arguments, prepare environment, build command,
\* run tests, generate report in that order; after a test run with failing
\* test cases the flow goes on and the report step runs; after any other
\* error of the launch of the test run the flow has stopped with exit
\* status 1 and no report step has run.
C28_RunnerFlow ==
    run.pc # "none" =>
        /\ InFlowOrder(run.trace)
        /\ run.pc = "reported" => run.trace = FlowOrder
        /\ run.tests = "failed" =>
              \/ run.pc = "tested"
                 /\ ENABLED (\E outcome \in ReportOutcomes :
                                GenerateAllureReport(outcome))
              \/ "generate_allure_report" \in Range(run.trace)
        /\ run.tests = "launch_error" =>
              /\ run.pc = "exit"
              /\ run.exit = 1
              /\ "generate_allure_report" \notin Range(run.trace)

C28_Witness ==
    /\ run.pc = "exit"
    /\ run.exit = 0
    /\ run.tests = "failed"
    /\ run.trace = FlowOrder
    /\ run.report = "generated"

-----------------------------------------------------------------------------
(* encrypt/sign_util.py: generate_sign called by concurrent callers *)

\* the callers; each owns the map of its number
Callers == {1, 2}

\* every call is passed the first caller's map
ParamsOfFirst(caller) == 1

\* the map that "params" names in the call of a caller (line 33): its own
ParamsOf(caller) == caller

\* what each caller passes: its map, sign_key and sign_type
CallerArgs ==
    << { [map |-> ExampleMap, sign_key |-> SECRET123, sign_type |-> SHA256],
         [map |-> ExampleMap, sign_key |-> <<>>, sign_type |-> SHA256] },
       { [map |-> SparseMap, sign_key |-> <<>>, sign_type |-> Upper(MD5)],
         [map |-> JoinedMap, sign_key |-> SECRET123, sign_type |-> SHA1] } >>

\* a call that has not run a line yet
Called(a) ==
    [pc |-> "called", orig |-> a.map, sign_key |-> a.sign_key,
     sign_type |-> a.sign_type, key |-> <<>>, timestamp |-> 0,
     nonce |-> <<>>, sign_str |-> <<>>, touched |-> {},
     result |-> Raised(<<>>, "", "", "")]

ConcInit ==
    /\ cfg \in {SaltedConfig, BareConfig}
    /\ clock = Epoch
    /\ steps = 0
    /\ params = <<>>
    /\ params_type = "dict"
    /\ issued = NoIssue
    /\ last = Blank
    /\ token = <<>>
    /\ call = Idle
    /\ passed = <<>>
    /\ \E a1 \in CallerArgs[1], a2 \in CallerArgs[2] :
           threads = [maps |-> <<a1.map, a2.map>>,
                      calls |-> <<Called(a1), Called(a2)>>]
    /\ db = NoDb
    /\ run = NotRun

\* the call of caller t goes on as c, and the maps are as given
Goes(t, c, maps) ==
    /\ threads' = [maps |-> maps, calls |-> [threads.calls EXCEPT ![t] = c]]
    /\ UNCHANGED <<cfg, clock, steps, params, params_type, issued, last, token,
                   call, passed, db, run>>

\* lines 44-49: the type test and the default of sign_key
CheckArgs(t) ==
    LET c == threads.calls[t]
        m == threads.maps[ParamsOf(t)]
        key == EffectiveKey(c.sign_key)
    IN  /\ c.pc = "called"
        /\ Goes(t,
                IF ~IsDict(params_type)
                THEN [c EXCEPT !.pc = "raised",
                        !.result = Raised(m, "not_dict", "generate_sign:45", "text")]
                ELSE IF KeyMissing(key)
                THEN [c EXCEPT !.pc = "raised",
                        !.result = Raised(m, "no_key", "generate_sign:49", "text")]
                ELSE [c EXCEPT !.pc = "checked", !.key = key],
                threads.maps)

\* line 52: timestamp = generate_timestamp()
ReadClock(t) ==
    LET c == threads.calls[t]
    IN  /\ c.pc = "checked"
        /\ Goes(t, [c EXCEPT !.pc = "timed", !.timestamp = clock], threads.maps)

\* line 53: nonce = generate_nonce()
DrawNonce(t, n) ==
    LET c == threads.calls[t]
    IN  /\ c.pc = "timed"
        /\ Goes(t, [c EXCEPT !.pc = "drawn", !.nonce = n], threads.maps)

\* line 54: params["timestamp"] = timestamp
WriteTimestamp(t) ==
    LET c == threads.calls[t]
        id == ParamsOf(t)
    IN  /\ c.pc = "drawn"
        /\ Goes(t, [c EXCEPT !.pc = "timestamped", !.touched = @ \cup {id}],
                [threads.maps EXCEPT
                    ![id] = DictSet(@, TIMESTAMP, IntV(c.timestamp))])

\* line 55: params["nonce"] = nonce
WriteNonce(t) ==
    LET c == threads.calls[t]
        id == ParamsOf(t)
    IN  /\ c.pc = "timestamped"
        /\ Goes(t, [c EXCEPT !.pc = "stamped", !.touched = @ \cup {id}],
                [threads.maps EXCEPT ![id] = DictSet(@, NONCE, StrV(c.nonce))])

\* lines 58-68: sort_dict(params) and the loop that builds sign_str
BuildSignStr(t) ==
    LET c == threads.calls[t]
        id == ParamsOf(t)
    IN  /\ c.pc = "stamped"
        /\ Goes(t, [c EXCEPT !.pc = "joined", !.touched = @ \cup {id},
                             !.sign_str = SignStr(threads.maps[id], c.key)],
                threads.maps)

\* lines 71-79: the digest by sign_type, and the return or the raise
Digest(t) ==
    LET c == threads.calls[t]
        m == threads.maps[ParamsOf(t)]
        r == IF Lower(c.sign_type) = MD5
             THEN IF Encodable(Md5Content(c.sign_str, <<>>))
                  THEN Signed(m, c.sign_str, Md5Content(c.sign_str, <<>>),
                              Md5Encrypt(c.sign_str, <<>>))
                  ELSE Raised(m, "digest", "md5_encrypt:47", "content")
             ELSE IF Lower(c.sign_type) = SHA256
             THEN IF Encodable(Sha256Content(c.sign_str, <<>>))
                  THEN Signed(m, c.sign_str, Sha256Content(c.sign_str, <<>>),
                              Sha256Encrypt(c.sign_str, <<>>))
                  ELSE Raised(m, "digest", "sha256_encrypt:65", "content")
             ELSE Raised(m, "unsupported", "generate_sign:76", "sign_type")
    IN  /\ c.pc = "joined"
        /\ Goes(t, [c EXCEPT !.pc = IF r.ok THEN "returned" ELSE "raised",
                             !.result = r],
                threads.maps)

\* a second passes while the calls run
ConcTick ==
    /\ clock - Epoch < MaxSteps
    /\ clock' = clock + 1
    /\ UNCHANGED <<cfg, steps, params, params_type, issued, last, token, call,
                   passed, threads, db, run>>

ConcNext ==
    \/ \E t \in Callers : CheckArgs(t)
    \/ \E t \in Callers : ReadClock(t)
    \/ \E t \in Callers, n \in GenerateNonce(NonceLength) : DrawNonce(t, n)
    \/ \E t \in Callers : WriteTimestamp(t)
    \/ \E t \in Callers : WriteNonce(t)
    \/ \E t \in Callers : BuildSignStr(t)
    \/ \E t \in Callers : Digest(t)
    \/ ConcTick

ConcSpec == ConcInit /\ [][ConcNext]_vars

\* the map of a call that runs alone, by how far the call has come
AloneMap(c) ==
    IF c.pc \in {"called", "checked", "timed", "drawn"} THEN c.orig
    ELSE IF c.pc = "timestamped"
    THEN DictSet(c.orig, TIMESTAMP, IntV(c.timestamp))
    ELSE IF c.pc = "raised" /\ c.result.site \in {"generate_sign:45", "generate_sign:49"}
    THEN c.orig
    ELSE Stamp(c.orig, c.timestamp, c.nonce)

\* C21: under every interleaving of the calls of callers that own distinct
\* maps, each call reads and writes its own map only, the map of each
\* caller is what its own call alone makes of it, and a call that ended
\* returned the signature (or raised the error) that generate_sign gives
\* alone for the same map, clock reading and nonce.
C21_NoInterference ==
    threads # <<>> =>
        \A t \in Callers :
            LET c == threads.calls[t]
            IN  /\ c.touched \subseteq {t}
                /\ threads.maps[t] = AloneMap(c)
                /\ c.pc \in {"returned", "raised"} =>
                      c.result = GenerateSign(c.orig, c.sign_key, c.sign_type,
                                              c.timestamp, c.nonce)

\* the second caller read the clock first and is between its two writes
\* when the first caller has returned
C21_Witness ==
    /\ threads # <<>>
    /\ threads.calls[1].pc = "returned"
    /\ threads.calls[2].pc = "timestamped"
    /\ threads.calls[2].timestamp < threads.calls[1].timestamp
    /\ threads.calls[1].result.sign # <<>>

====
